---- MODULE Spec2Model ----
(***************************************************************************)
(* A model of the CNC controller sketch cnc_controller.ino: the serial     *)
(* line assembler and command dispatcher (processCmd), and the per-tick    *)
(* interlock enforcement of loop().                                         *)
(*                                                                         *)
(* Text is modelled as TLA+ strings, one character per serial byte.        *)
(* 32-bit quantities (millis(), the int32_t timestamps) are modelled by    *)
(* their bit pattern, a pair <<hi, lo>> of 16-bit halves, so that the      *)
(* unsigned and the signed subtraction of loop() wrap as on the target.    *)
(***************************************************************************)
EXTENDS Integers, Sequences, FiniteSets, TLC

(* Pin levels. *)
LOW == 0
HIGH == 1

(* typedef enum MachineMode *)
MODE_IDLE == 0
MODE_ROUTER == 1
MODE_LASER == 2
MODE_MANUAL == 3

CMD_BUFFER_MAX_SIZE == 64
LASER_OFF_TO_AIR_OFF_MS == 5000
LASER_OFF_TO_HOOD_OFF_MS == 240000
NUM_LEDS == 3

(***************************************************************************)
(* 32-bit words.                                                           *)
(***************************************************************************)
Half == 65536

(* The word whose unsigned value is n, for 0 <= n < 2^31. *)
W(n) == <<n \div Half, n % Half>>

(* LONG_MIN, the "never" value of the timestamps: bit pattern 0x80000000. *)
LONG_MIN == <<32768, 0>>

(* a + b modulo 2^32 *)
WAdd(a, b) ==
  LET lo == a[2] + b[2]
      hi == a[1] + b[1] + (lo \div Half)
  IN  <<hi % Half, lo % Half>>

(* a - b modulo 2^32: the unsigned difference, and the bit pattern of the *)
(* wrapped signed difference.                                              *)
WSub(a, b) ==
  LET lo == a[2] - b[2]
      hi == a[1] - b[1] - (IF lo < 0 THEN 1 ELSE 0)
  IN  <<hi % Half, lo % Half>>

(* a >= b, both read as unsigned long *)
WGeU(a, b) == a[1] > b[1] \/ (a[1] = b[1] /\ a[2] >= b[2])

(* a < b, both read as (signed) long *)
WNeg(a) == a[1] >= 32768
WLtS(a, b) ==
  IF WNeg(a) # WNeg(b) THEN WNeg(a) ELSE ~WGeU(a, b)

(***************************************************************************)
(* Text helpers: String::startsWith and sscanf's %d.                       *)
(***************************************************************************)
StartsWith(s, p) == Len(s) >= Len(p) /\ SubSeq(s, 1, Len(p)) = p

CharAt(s, i) == SubSeq(s, i, i)

IsDigit(c) == c \in {"0", "1", "2", "3", "4", "5", "6", "7", "8", "9"}

DigitVal(c) ==
  CASE c = "0" -> 0 [] c = "1" -> 1 [] c = "2" -> 2 [] c = "3" -> 3
    [] c = "4" -> 4 [] c = "5" -> 5 [] c = "6" -> 6 [] c = "7" -> 7
    [] c = "8" -> 8 [] c = "9" -> 9

IsSpace(c) == c \in {" ", "\t", "\r", "\n"}

RECURSIVE SkipSpace(_, _)
SkipSpace(s, i) ==
  IF i <= Len(s) /\ IsSpace(CharAt(s, i)) THEN SkipSpace(s, i + 1) ELSE i

RECURSIVE ScanDigits(_, _, _)
ScanDigits(s, i, acc) ==
  IF i <= Len(s) /\ IsDigit(CharAt(s, i))
  THEN ScanDigits(s, i + 1, acc * 10 + DigitVal(CharAt(s, i)))
  ELSE [val |-> acc, next |-> i]

(* One %d conversion at position i of s: leading white space, an optional  *)
(* sign, decimal digits.  ok is FALSE when there is no digit (a matching   *)
(* failure: nothing is stored).  The text is assumed to denote a value     *)
(* that fits an int.                                                       *)
ScanInt(s, i) ==
  LET j == SkipSpace(s, i)
      signed == j <= Len(s) /\ CharAt(s, j) \in {"-", "+"}
      k == IF signed THEN j + 1 ELSE j
      d == ScanDigits(s, k, 0)
  IN  [ok |-> d.next > k,
       val |-> IF signed /\ CharAt(s, j) = "-" THEN 0 - d.val ELSE d.val,
       next |-> d.next]

(* n conversions "%d,%d,..." from position i: the values converted before  *)
(* the first matching failure.                                             *)
RECURSIVE ScanInts(_, _, _)
ScanInts(s, i, n) ==
  IF n = 0 THEN <<>>
  ELSE LET r == ScanInt(s, i)
       IN  IF ~r.ok THEN <<>>
           ELSE IF n > 1 /\ r.next <= Len(s) /\ CharAt(s, r.next) = ","
                THEN <<r.val>> \o ScanInts(s, r.next + 1, n - 1)
                ELSE <<r.val>>

(* The k-th variable an sscanf call stores into: the converted value, or   *)
(* what the variable held before (ind[k], indeterminate for a local).      *)
Scanned(s, i, n, ind, k) ==
  LET vals == ScanInts(s, i, n)
  IN  IF k <= Len(vals) THEN vals[k] ELSE ind[k]

(* String(int): the decimal text of n. *)
DigitChar(d) ==
  CASE d = 0 -> "0" [] d = 1 -> "1" [] d = 2 -> "2" [] d = 3 -> "3"
    [] d = 4 -> "4" [] d = 5 -> "5" [] d = 6 -> "6" [] d = 7 -> "7"
    [] d = 8 -> "8" [] d = 9 -> "9"

RECURSIVE NatToString(_)
NatToString(n) ==
  IF n < 10 THEN DigitChar(n)
  ELSE NatToString(n \div 10) \o DigitChar(n % 10)

IntToString(n) ==
  IF n < 0 THEN "-" \o NatToString(0 - n) ELSE NatToString(n)

(* The uint8_t an int converts to (CRGB channels, digitalWrite's value). *)
ToUint8(v) == v % 256

(* digitalWrite(pin, val): the level the pin takes. *)
PinLevel(v) == IF ToUint8(v) = LOW THEN LOW ELSE HIGH

(***************************************************************************)
(* State.                                                                  *)
(***************************************************************************)
VARIABLES
  cmd_buffer,        \* String cmd_buffer
  pump_interval_ms,  \* int pump_interval_ms
  mode,              \* MachineMode mode
  mode_set_time,     \* int32_t timestamps
  laser_on_time,
  spindle_on_time,
  last_loop_time,
  leds,              \* CRGB leds[NUM_LEDS], as <<r, g, b>>
  pin_spindle,       \* output pins
  pin_laser,
  pin_air,
  pin_vacuum,
  pin_hood,
  pin_pump_ena,
  timer,             \* ITimer1: <<armed, interval>>
  pin_door,          \* input pins (raw levels) and the pwm-sense sample
  pwm,
  rx,                \* bytes received and not yet read by loop()
  reply,             \* what the current tick printed, one entry per reply
  now,               \* loop()'s local: millis() at the top of the tick
  pc,                \* position in loop(): "read" or "enforce"
  event,             \* what the tick's input part did
  dispatched,        \* the line handed to processCmd() in this tick
  host_line,         \* the line the host sent last
  laser_is_on,       \* loop()'s local of the last enforcement
  air_fired,         \* did the last enforcement take the air/hood shutoff
  hood_fired,
  air_fires,         \* shutoffs taken since laser_on_time was last set
  hood_fires,
  scene,             \* since laser_on_time was last set: mode stayed laser,
                     \* the door read closed, no air= or hood= command
  advances           \* ticks and quiet periods in which the clock moved

ctrl == <<pump_interval_ms, mode, mode_set_time, leds, pin_spindle,
          pin_laser, pin_air, pin_vacuum, pin_hood, pin_pump_ena, timer>>
stamps == <<laser_on_time, spindle_on_time, last_loop_time>>
hist == <<laser_is_on, air_fired, hood_fired, air_fires, hood_fires>>
steady == <<scene>>
vars == <<cmd_buffer, ctrl, stamps, pin_door, pwm, rx, reply, now, pc,
          event, dispatched, host_line, hist, steady, advances>>

(***************************************************************************)
(* processCmd()                                                            *)
(***************************************************************************)
(* The state processCmd() can write, and what it has printed. *)
State ==
  [mode |-> mode, mode_set_time |-> mode_set_time, leds |-> leds,
   pin_spindle |-> pin_spindle, pin_laser |-> pin_laser,
   pin_air |-> pin_air, pin_vacuum |-> pin_vacuum, pin_hood |-> pin_hood,
   pump_interval_ms |-> pump_interval_ms, pin_pump_ena |-> pin_pump_ena,
   timer |-> timer, reply |-> <<>>]

(* Serial.println of one reply *)
Println(st, text) == [st EXCEPT !.reply = Append(@, text)]

(* sendDone() *)
sendDone(st) == Println(st, "done")

(* !digitalRead(pin) *)
Inverted(level) == IF level = LOW THEN 1 ELSE 0

LedText(led) ==
  IntToString(led[1]) \o "," \o IntToString(led[2]) \o ","
    \o IntToString(led[3])

(* The lines of the status reply; in holds the levels of the inputs that  *)
(* only the status reply reads.                                            *)
StatusBlock(in) ==
  "mode=" \o IntToString(mode)
    \o "\ndoor=" \o IntToString(Inverted(pin_door))
    \o "\nlaser_head=" \o IntToString(Inverted(in.head))
    \o "\nforce_vacuum=" \o IntToString(Inverted(in.vforce))
    \o "\nvacuum=" \o IntToString(pin_vacuum)
    \o "\nhood=" \o IntToString(pin_hood)
    \o "\npressure=" \o IntToString(in.pressure)
    \o "\npwm=" \o IntToString(pwm)
    \o "\nspindle=" \o IntToString(pin_spindle)
    \o "\nlaser=" \o IntToString(pin_laser)
    \o "\nair=" \o IntToString(pin_air)
    \o "\npump_interval_ms=" \o IntToString(pump_interval_ms)
    \o "\nled0=" \o LedText(leds[0])
    \o "\nled1=" \o LedText(leds[1])
    \o "\nled2=" \o LedText(leds[2])
    \o "\ndebug="

(* Variant: the pressure sample is stored where the report reads the     *)
(* pump interval from.                                                     *)
CmdStatus_StoresSample(in) ==
  Println([State EXCEPT !.pump_interval_ms = in.pressure], StatusBlock(in))

(* The status command: print the report. *)
CmdStatus(in) == Println(State, StatusBlock(in))

(* The k-th of the n ints sscanf(buf, prefix "%d,...") stores. *)
Arg(buf, prefix, n, ind, k) == Scanned(buf, Len(prefix) + 1, n, ind, k)

(* Variant: the range check admits one value too many. *)
IsMode_OneMore(n) == n >= MODE_IDLE /\ n <= MODE_MANUAL + 1

(* new_mode is one of the four MachineMode values *)
IsMode(n) ==
  n = MODE_IDLE \/ n = MODE_LASER \/ n = MODE_ROUTER \/ n = MODE_MANUAL

(* Variant: the gate tests the wrong mode. *)
IdleIgnores_Manual(m) == m = MODE_MANUAL

(* "If we are in IDLE mode, then all other commands are ignored" *)
IdleIgnores(m) == m = MODE_IDLE

(* the range check of pump_interval_ms *)
PumpIntervalBad(n) == n < 0 \/ n > 1000

CmdMode(buf, t, in) ==
  LET new_mode == Arg(buf, "mode=", 1, in.ind, 1)
  IN  IF IsMode(new_mode)
      THEN sendDone([State EXCEPT !.mode = new_mode, !.mode_set_time = t])
      ELSE Println(State, "args_error")

(* Variant: green and blue are stored in each other's place. *)
CmdLed_GreenBlueSwapped(buf, prefix, i, in) ==
  LET r == Arg(buf, prefix, 3, in.ind, 1)
      g == Arg(buf, prefix, 3, in.ind, 2)
      b == Arg(buf, prefix, 3, in.ind, 3)
  IN  sendDone([State EXCEPT
                  !.leds[i] = <<ToUint8(r), ToUint8(b), ToUint8(g)>>])

CmdLed(buf, prefix, i, in) ==
  LET r == Arg(buf, prefix, 3, in.ind, 1)
      g == Arg(buf, prefix, 3, in.ind, 2)
      b == Arg(buf, prefix, 3, in.ind, 3)
  IN  sendDone([State EXCEPT
                  !.leds[i] = <<ToUint8(r), ToUint8(g), ToUint8(b)>>])

(* Variant: an interval of zero disables the driver, the timer runs on. *)
CmdPump_TimerRunsOn(buf) ==
  LET n == Arg(buf, "pump_interval_ms=", 1, <<pump_interval_ms>>, 1)
      stored == [State EXCEPT !.pump_interval_ms = n]
      checked == IF PumpIntervalBad(n)
                 THEN Println([stored EXCEPT !.pin_pump_ena = HIGH],
                              "args_error")
                 ELSE stored
  IN  IF n = 0
      THEN sendDone([stored EXCEPT !.pin_pump_ena = HIGH])
      ELSE sendDone([checked EXCEPT !.pin_pump_ena = LOW,
                                    !.timer = <<TRUE, n>>])

CmdPump(buf) ==
  LET n == Arg(buf, "pump_interval_ms=", 1, <<pump_interval_ms>>, 1)
      stored == [State EXCEPT !.pump_interval_ms = n]
      checked == IF PumpIntervalBad(n)
                 THEN Println([stored EXCEPT !.pin_pump_ena = HIGH],
                              "args_error")
                 ELSE stored
  IN  IF n = 0
      THEN sendDone([stored EXCEPT !.pin_pump_ena = HIGH,
                                   !.timer = <<FALSE, 0>>])
      ELSE sendDone([checked EXCEPT !.pin_pump_ena = LOW,
                                    !.timer = <<TRUE, n>>])

(* processCmd() on the buffer buf at time t: the state it leaves. *)
processCmd(buf, t, in) ==
  IF StartsWith(buf, "status") THEN CmdStatus(in)
  ELSE IF StartsWith(buf, "mode=") THEN CmdMode(buf, t, in)
  ELSE IF IdleIgnores(mode) THEN Println(State, "unknown")
  ELSE IF StartsWith(buf, "led0=") THEN CmdLed(buf, "led0=", 0, in)
  ELSE IF StartsWith(buf, "led1=") THEN CmdLed(buf, "led1=", 1, in)
  ELSE IF StartsWith(buf, "led2=") THEN CmdLed(buf, "led2=", 2, in)
  ELSE IF StartsWith(buf, "spindle=")
  THEN sendDone([State EXCEPT !.pin_spindle =
                   PinLevel(Arg(buf, "spindle=", 1, in.ind, 1))])
  ELSE IF StartsWith(buf, "laser=")
  THEN sendDone([State EXCEPT !.pin_laser =
                   PinLevel(Arg(buf, "laser=", 1, in.ind, 1))])
  ELSE IF StartsWith(buf, "air=")
  THEN sendDone([State EXCEPT !.pin_air =
                   PinLevel(Arg(buf, "air=", 1, in.ind, 1))])
  ELSE IF StartsWith(buf, "vacuum=")
  THEN sendDone([State EXCEPT !.pin_vacuum =
                   PinLevel(Arg(buf, "vacuum=", 1, in.ind, 1))])
  ELSE IF StartsWith(buf, "hood=")
  THEN sendDone([State EXCEPT !.pin_hood =
                   PinLevel(Arg(buf, "hood=", 1, in.ind, 1))])
  ELSE IF StartsWith(buf, "pump_interval_ms=") THEN CmdPump(buf)
  ELSE Println(State, "unknown")

(***************************************************************************)
(* loop()                                                                  *)
(***************************************************************************)
(* Variant: a full buffer still takes one character. *)
BufferHasRoom_OneMore(len) == len <= CMD_BUFFER_MAX_SIZE

(* cmd_buffer.length() < CMD_BUFFER_MAX_SIZE *)
BufferHasRoom(len) == len < CMD_BUFFER_MAX_SIZE

(* Variant: the spindle is only forced off in idle mode. *)
SpindleEnforced_IdleOnly(m, level) == IF m = MODE_IDLE THEN LOW ELSE level

(* "If we are not in router mode, the spindle should be off" *)
SpindleEnforced(m, level) == IF m # MODE_ROUTER THEN LOW ELSE level

(* Variant: in laser mode the door only vetoes, the output is not raised. *)
LaserEnforced_NotRaised(m, door, level) ==
  IF m # MODE_LASER THEN LOW
  ELSE IF door # LOW THEN LOW ELSE level

(* "If we are not in laser mode, the laser should be off"; in laser mode   *)
(* "the laser should be on when the door is closed" (door reads LOW).      *)
LaserEnforced(m, door, level) ==
  IF m # MODE_LASER THEN LOW
  ELSE IF door # LOW THEN LOW ELSE HIGH

(* Variant: only the previous tick's elapsed time is tested. *)
ShutoffDue_PreviousOnly(t, last, on_time, delay) ==
  WLtS(WSub(last, on_time), W(delay))

(* (now - laser_on_time) >= delay as unsigned long, and                    *)
(* (last_loop_time - laser_on_time) < delay as long                        *)
ShutoffDue(t, last, on_time, delay) ==
  /\ WGeU(WSub(t, on_time), W(delay))
  /\ WLtS(WSub(last, on_time), W(delay))

(* Values an uninitialised int may hold, and the samples of the inputs. *)
IndetVals == {0, 1}
AnalogVals == {0, 512}
MaxFires == 2
MaxAdvances == 7

Inputs ==
  [ind : [1..3 -> IndetVals], head : {LOW, HIGH}, vforce : {LOW, HIGH},
   pressure : AnalogVals]

Init ==
  /\ cmd_buffer = ""
  /\ pump_interval_ms = 0
  /\ mode = MODE_IDLE
  /\ mode_set_time = LONG_MIN
  /\ laser_on_time = LONG_MIN
  /\ spindle_on_time = LONG_MIN
  /\ last_loop_time = LONG_MIN
  /\ leds = [i \in 0..(NUM_LEDS - 1) |->
               CASE i = 0 -> <<255, 0, 0>>
                 [] i = 1 -> <<0, 128, 0>>
                 [] i = 2 -> <<0, 0, 255>>]
  /\ pin_spindle = LOW
  /\ pin_laser = LOW
  /\ pin_air = LOW
  /\ pin_vacuum = LOW
  /\ pin_hood = LOW
  /\ pin_pump_ena = HIGH
  /\ timer = <<FALSE, 0>>
  /\ pin_door \in {LOW, HIGH}
  /\ pwm \in AnalogVals
  /\ rx = ""
  /\ reply = <<>>
  /\ now = W(0)
  /\ pc = "read"
  /\ event = "none"
  /\ dispatched = ""
  /\ host_line = ""
  /\ laser_is_on = FALSE
  /\ air_fired = FALSE
  /\ hood_fired = FALSE
  /\ air_fires = 0
  /\ hood_fires = 0
  /\ scene = FALSE
  /\ advances = 0

(* The host writes one line and its terminator to the serial port. *)
HostSend(lines) ==
  /\ rx = ""
  /\ \E l \in lines : rx' = l \o "\n" /\ host_line' = l
  /\ UNCHANGED <<cmd_buffer, ctrl, stamps, pin_door, pwm, reply, now, pc,
                 event, dispatched, hist, steady, advances>>

(* The door switch and the pwm-sense input change. *)
DoorChange ==
  /\ pin_door' = IF pin_door = LOW THEN HIGH ELSE LOW
  /\ UNCHANGED <<cmd_buffer, ctrl, stamps, pwm, rx, reply, now, pc, event,
                 dispatched, host_line, hist, steady, advances>>

PwmChange ==
  /\ pwm' \in AnalogVals \ {pwm}
  /\ UNCHANGED <<cmd_buffer, ctrl, stamps, pin_door, rx, reply, now, pc,
                 event, dispatched, host_line, hist, steady, advances>>

(* The state processCmd() leaves becomes the controller's. *)
Commit(st) ==
  /\ mode' = st.mode
  /\ mode_set_time' = st.mode_set_time
  /\ leds' = st.leds
  /\ pin_spindle' = st.pin_spindle
  /\ pin_laser' = st.pin_laser
  /\ pin_air' = st.pin_air
  /\ pin_vacuum' = st.pin_vacuum
  /\ pin_hood' = st.pin_hood
  /\ pump_interval_ms' = st.pump_interval_ms
  /\ pin_pump_ena' = st.pin_pump_ena
  /\ timer' = st.timer
  /\ reply' = st.reply

(* Does processCmd() take the air= or the hood= branch on buf in mode m? *)
WritesAirOrHood(buf, m) ==
  /\ ~StartsWith(buf, "status")
  /\ ~StartsWith(buf, "mode=")
  /\ ~IdleIgnores(m)
  /\ StartsWith(buf, "air=") \/ StartsWith(buf, "hood=")

(* Variant: the buffer is not cleared after processCmd(). *)
LoopRead_KeepsBuffer(d) ==
  /\ pc = "read"
  /\ pc' = "enforce"
  /\ d # W(0) => advances < MaxAdvances
  /\ advances' = IF d # W(0) THEN advances + 1 ELSE advances
  /\ now' = WAdd(now, d)
  /\ IF Len(rx) > 0
     THEN /\ rx' = SubSeq(rx, 2, Len(rx))
          /\ IF CharAt(rx, 1) = "\n"
             THEN /\ \E in \in Inputs :
                       Commit(processCmd(cmd_buffer, WAdd(now, d), in))
                  /\ cmd_buffer' = cmd_buffer
                  /\ event' = "dispatch"
                  /\ dispatched' = cmd_buffer
                  /\ scene' = (scene /\ ~WritesAirOrHood(cmd_buffer, mode))
             ELSE /\ IF BufferHasRoom(Len(cmd_buffer))
                     THEN /\ cmd_buffer' = cmd_buffer \o CharAt(rx, 1)
                          /\ event' = "char"
                     ELSE /\ cmd_buffer' = ""
                          /\ event' = "overflow"
                  /\ reply' = <<>>
                  /\ dispatched' = ""
                  /\ UNCHANGED <<ctrl, scene>>
     ELSE /\ event' = "none"
          /\ reply' = <<>>
          /\ dispatched' = ""
          /\ UNCHANGED <<rx, cmd_buffer, ctrl, scene>>
  /\ UNCHANGED <<stamps, pin_door, pwm, host_line, hist>>

(* The first part of loop(), d ms after the previous tick began: read      *)
(* millis(), and read at most one byte, which ends a line (processCmd),    *)
(* is appended to the buffer, or overflows it.                             *)
LoopRead(d) ==
  /\ pc = "read"
  /\ pc' = "enforce"
  /\ d # W(0) => advances < MaxAdvances
  /\ advances' = IF d # W(0) THEN advances + 1 ELSE advances
  /\ now' = WAdd(now, d)
  /\ IF Len(rx) > 0
     THEN /\ rx' = SubSeq(rx, 2, Len(rx))
          /\ IF CharAt(rx, 1) = "\n"
             THEN /\ \E in \in Inputs :
                       Commit(processCmd(cmd_buffer, WAdd(now, d), in))
                  /\ cmd_buffer' = ""
                  /\ event' = "dispatch"
                  /\ dispatched' = cmd_buffer
                  /\ scene' = (scene /\ ~WritesAirOrHood(cmd_buffer, mode))
             ELSE /\ IF BufferHasRoom(Len(cmd_buffer))
                     THEN /\ cmd_buffer' = cmd_buffer \o CharAt(rx, 1)
                          /\ event' = "char"
                     ELSE /\ cmd_buffer' = ""
                          /\ event' = "overflow"
                  /\ reply' = <<>>
                  /\ dispatched' = ""
                  /\ UNCHANGED <<ctrl, scene>>
     ELSE /\ event' = "none"
          /\ reply' = <<>>
          /\ dispatched' = ""
          /\ UNCHANGED <<rx, cmd_buffer, ctrl, scene>>
  /\ UNCHANGED <<stamps, pin_door, pwm, host_line, hist>>

(* Variant: air and hood follow laser activity in every mode. *)
LoopEnforce_ForcedInEveryMode ==
  /\ pc = "enforce"
  /\ pc' = "read"
  /\ LET on == pin_laser = HIGH /\ pwm # 0
         spindle_is_on == pin_spindle = HIGH /\ pwm # 0
         on_time == IF on THEN now ELSE laser_on_time
         air_due == mode = MODE_LASER
                      /\ ShutoffDue(now, last_loop_time, on_time,
                                    LASER_OFF_TO_AIR_OFF_MS)
         hood_due == mode = MODE_LASER
                       /\ ShutoffDue(now, last_loop_time, on_time,
                                     LASER_OFF_TO_HOOD_OFF_MS)
         forced == on
     IN  /\ laser_is_on' = on
         /\ laser_on_time' = on_time
         /\ spindle_on_time' = IF spindle_is_on THEN now ELSE spindle_on_time
         /\ pin_spindle' = SpindleEnforced(mode, pin_spindle)
         /\ pin_laser' = LaserEnforced(mode, pin_door, pin_laser)
         /\ pin_air' = IF air_due THEN LOW
                       ELSE IF forced THEN HIGH ELSE pin_air
         /\ pin_hood' = IF hood_due THEN LOW
                        ELSE IF forced THEN HIGH ELSE pin_hood
         /\ scene' = ((on \/ scene) /\ mode = MODE_LASER /\ pin_door = LOW)
         /\ air_fired' = air_due
         /\ hood_fired' = hood_due
         /\ air_fires' = IF on THEN 0
                         ELSE IF air_due /\ air_fires < MaxFires
                              THEN air_fires + 1 ELSE air_fires
         /\ hood_fires' = IF on THEN 0
                          ELSE IF hood_due /\ hood_fires < MaxFires
                               THEN hood_fires + 1 ELSE hood_fires
  /\ last_loop_time' = now
  /\ UNCHANGED <<cmd_buffer, pump_interval_ms, mode, mode_set_time, leds,
                 pin_vacuum, pin_pump_ena, timer, pin_door, pwm, rx, reply,
                 now, event, dispatched, host_line, advances>>

(* The rest of loop(): sample laser and spindle activity, enforce the      *)
(* interlocks, run the delayed shutoff of air and hood, note the time.     *)
LoopEnforce ==
  /\ pc = "enforce"
  /\ pc' = "read"
  /\ LET on == pin_laser = HIGH /\ pwm # 0
         spindle_is_on == pin_spindle = HIGH /\ pwm # 0
         on_time == IF on THEN now ELSE laser_on_time
         air_due == mode = MODE_LASER
                      /\ ShutoffDue(now, last_loop_time, on_time,
                                    LASER_OFF_TO_AIR_OFF_MS)
         hood_due == mode = MODE_LASER
                       /\ ShutoffDue(now, last_loop_time, on_time,
                                     LASER_OFF_TO_HOOD_OFF_MS)
         forced == mode = MODE_LASER /\ on
     IN  /\ laser_is_on' = on
         /\ laser_on_time' = on_time
         /\ spindle_on_time' = IF spindle_is_on THEN now ELSE spindle_on_time
         /\ pin_spindle' = SpindleEnforced(mode, pin_spindle)
         /\ pin_laser' = LaserEnforced(mode, pin_door, pin_laser)
         /\ pin_air' = IF air_due THEN LOW
                       ELSE IF forced THEN HIGH ELSE pin_air
         /\ pin_hood' = IF hood_due THEN LOW
                        ELSE IF forced THEN HIGH ELSE pin_hood
         /\ scene' = ((on \/ scene) /\ mode = MODE_LASER /\ pin_door = LOW)
         /\ air_fired' = air_due
         /\ hood_fired' = hood_due
         /\ air_fires' = IF on THEN 0
                         ELSE IF air_due /\ air_fires < MaxFires
                              THEN air_fires + 1 ELSE air_fires
         /\ hood_fires' = IF on THEN 0
                          ELSE IF hood_due /\ hood_fires < MaxFires
                               THEN hood_fires + 1 ELSE hood_fires
  /\ last_loop_time' = now
  /\ UNCHANGED <<cmd_buffer, pump_interval_ms, mode, mode_set_time, leds,
                 pin_vacuum, pin_pump_ena, timer, pin_door, pwm, rx, reply,
                 now, event, dispatched, host_line, advances>>

(* d ms of ticks in which no byte arrives, no activity is sampled and no   *)
(* shutoff delay is crossed: every one of them runs LoopRead and           *)
(* LoopEnforce and changes nothing but now and last_loop_time.             *)
Zone(e) ==
  IF ~WGeU(e, W(LASER_OFF_TO_AIR_OFF_MS)) THEN 0
  ELSE IF ~WGeU(e, W(LASER_OFF_TO_HOOD_OFF_MS)) THEN 1
  ELSE IF ~WNeg(e) THEN 2 ELSE 3

QuietPeriod(d) ==
  /\ pc = "read"
  /\ rx = ""
  /\ pwm = 0
  /\ advances < MaxAdvances
  /\ pin_spindle = SpindleEnforced(mode, pin_spindle)
  /\ pin_laser = LaserEnforced(mode, pin_door, pin_laser)
  /\ mode = MODE_LASER =>
       /\ Zone(WSub(last_loop_time, laser_on_time)) < 3
       /\ Zone(WSub(last_loop_time, laser_on_time))
            = Zone(WSub(WAdd(now, d), laser_on_time))
       /\ WGeU(WSub(WAdd(now, d), laser_on_time),
               WSub(last_loop_time, laser_on_time))
  /\ now' = WAdd(now, d)
  /\ last_loop_time' = WAdd(now, d)
  /\ advances' = advances + 1
  /\ event' = "none"
  /\ reply' = <<>>
  /\ dispatched' = ""
  /\ laser_is_on' = FALSE
  /\ air_fired' = FALSE
  /\ hood_fired' = FALSE
  /\ UNCHANGED <<cmd_buffer, ctrl, laser_on_time, spindle_on_time, pin_door,
                 pwm, rx, pc, host_line, air_fires, hood_fires, scene>>

(***************************************************************************)
(* The controller with a host that drives modes, laser and spindle.  All  *)
(* ticks fall in the millisecond of boot.                                  *)
(***************************************************************************)
TickSteps == {W(0)}

HostLines ==
  {"mode=0", "mode=1", "mode=2", "mode=3", "mode=4", "mode=-1",
   "laser=1", "laser=0", "laser=", "spindle=1", "status", ""}

Next ==
  \/ HostSend(HostLines)
  \/ DoorChange
  \/ PwmChange
  \/ \E d \in TickSteps : LoopRead(d)
  \/ LoopEnforce

Spec == Init /\ [][Next]_vars

(***************************************************************************)
(* The controller in laser mode over long periods.  The clock moves in     *)
(* ticks of 2.5 s while no line is in flight, and in quiet periods that    *)
(* lead up to the hood delay and up to 2^31 ms.                            *)
(***************************************************************************)
ShutoffSteps == {W(0), W(2500)}
QuietSteps == {W(232500), W(2147241148)}

ShutoffLines == {"mode=2"}

NextShutoff ==
  \/ HostSend(ShutoffLines)
  \/ DoorChange
  \/ PwmChange
  \/ \E d \in ShutoffSteps : (d # W(0) => rx = "") /\ LoopRead(d)
  \/ LoopEnforce
  \/ \E d \in QuietSteps : QuietPeriod(d)

SpecShutoff == Init /\ [][NextShutoff]_vars

(***************************************************************************)
(* The controller with a host that only sets modes, while the clock moves. *)
(***************************************************************************)
MaxModeAdvances == 2
ModeSteps == {W(0), W(2500)}

(* The mode= lines the host sends, each with the integer it denotes. *)
ModeArgs ==
  {<<"mode=0", 0>>, <<"mode=1", 1>>, <<"mode=2", 2>>, <<"mode=3", 3>>,
   <<"mode=4", 4>>, <<"mode=-1", 0 - 1>>, <<"mode=32767", 32767>>}

(* and a mode= line without a number, which leaves new_mode unset *)
ModeLines == {p[1] : p \in ModeArgs} \cup {"mode="}

NextMode ==
  \/ HostSend(ModeLines)
  \/ DoorChange
  \/ PwmChange
  \/ \E d \in ModeSteps :
       (d # W(0) => advances < MaxModeAdvances) /\ LoopRead(d)
  \/ LoopEnforce

SpecMode == Init /\ [][NextMode]_vars

(***************************************************************************)
(* The controller with a host that switches between idle and manual mode   *)
(* and sends one command of every kind.                                    *)
(***************************************************************************)
(* The lines that are neither status nor mode= commands. *)
GatedLines ==
  {"led0=1,2,3", "led1=4,5,6", "led2=7,8,9", "spindle=1", "laser=1",
   "air=1", "vacuum=1", "hood=1", "pump_interval_ms=500",
   "pump_interval_ms=0", "foo"}

GateLines == GatedLines \cup {"mode=0", "mode=3"}

NextGate ==
  \/ HostSend(GateLines)
  \/ \E d \in TickSteps : LoopRead(d)
  \/ LoopEnforce

SpecGate == Init /\ [][NextGate]_vars

(***************************************************************************)
(* The controller with a host that sets the pump interval.                 *)
(***************************************************************************)
PumpLines ==
  {"mode=0", "mode=1", "status", "", "pump_interval_ms=0",
   "pump_interval_ms=500", "pump_interval_ms=1000", "pump_interval_ms=1001",
   "pump_interval_ms=-1"}

(* The pump_interval_ms= lines among them, each with its integer. *)
PumpArgs ==
  {<<"pump_interval_ms=0", 0>>, <<"pump_interval_ms=500", 500>>,
   <<"pump_interval_ms=1000", 1000>>, <<"pump_interval_ms=1001", 1001>>,
   <<"pump_interval_ms=-1", 0 - 1>>}

NextPump ==
  \/ HostSend(PumpLines)
  \/ \E d \in TickSteps : LoopRead(d)
  \/ LoopEnforce

SpecPump == Init /\ [][NextPump]_vars

(***************************************************************************)
(* The controller with a host that sends oversized lines: k characters x   *)
(* followed, without a terminator in between, by a command text.           *)
(***************************************************************************)
MaxJunk == 66

RECURSIVE Junk(_)
Junk(k) == IF k = 0 THEN "" ELSE Junk(k - 1) \o "x"

Tails == {"", "mode=3", "status"}

OverflowLines ==
  {Junk(k) \o t : k \in CMD_BUFFER_MAX_SIZE..MaxJunk, t \in Tails}
    \cup {"mode=1"}

NextOverflow ==
  \/ HostSend(OverflowLines)
  \/ \E d \in TickSteps : LoopRead(d)
  \/ LoopEnforce

SpecOverflow == Init /\ [][NextOverflow]_vars

(***************************************************************************)
(* The controller with a host that sets an indicator and asks for the      *)
(* status right after it, in idle and in manual mode.                      *)
(***************************************************************************)
(* The indicator lines the host sends, each with the indicator and the     *)
(* colour it denotes.                                                      *)
LedArgs ==
  {[line |-> "led0=10,20,30", i |-> 0, rgb |-> <<10, 20, 30>>],
   [line |-> "led0=0,255,7", i |-> 0, rgb |-> <<0, 255, 7>>],
   [line |-> "led1=10,20,30", i |-> 1, rgb |-> <<10, 20, 30>>],
   [line |-> "led1=0,255,7", i |-> 1, rgb |-> <<0, 255, 7>>],
   [line |-> "led2=10,20,30", i |-> 2, rgb |-> <<10, 20, 30>>],
   [line |-> "led2=255,0,100", i |-> 2, rgb |-> <<255, 0, 100>>]}

(* Each is sent with a status line behind it. *)
LedLines ==
  {p.line \o "\nstatus" : p \in LedArgs} \cup {"mode=0", "mode=3"}

NextLed ==
  \/ HostSend(LedLines)
  \/ \E d \in TickSteps : LoopRead(d)
  \/ LoopEnforce

SpecLed == Init /\ [][NextLed]_vars

(***************************************************************************)
(* The controller with a host that enters laser mode and switches air and  *)
(* hood itself, while door and pwm-sense change and the clock moves in     *)
(* steps of the air delay.                                                 *)
(***************************************************************************)
MaxLaserAdvances == 2
LaserSteps == {W(0), W(LASER_OFF_TO_AIR_OFF_MS)}

LaserLines == {"mode=2", "mode=3", "air=1", "air=0", "hood=1", "hood=0"}

NextLaser ==
  \/ HostSend(LaserLines)
  \/ DoorChange
  \/ PwmChange
  \/ \E d \in LaserSteps :
       (d # W(0) => (rx = "" /\ advances < MaxLaserAdvances)) /\ LoopRead(d)
  \/ LoopEnforce

SpecLaser == Init /\ [][NextLaser]_vars

(***************************************************************************)
(* The controller with a host that writes several lines at once.           *)
(***************************************************************************)
OrderLines ==
  {"mode=1", "mode=2", "spindle=1\nlaser=1", "laser=1\nspindle=1",
   "mode=3\nspindle=1\nmode=0"}

NextOrder ==
  \/ HostSend(OrderLines)
  \/ DoorChange
  \/ PwmChange
  \/ \E d \in TickSteps : LoopRead(d)
  \/ LoopEnforce

SpecOrder == Init /\ [][NextOrder]_vars

(***************************************************************************)
(* The controller with a host that enters and leaves laser mode and sends  *)
(* nothing else, while door and pwm-sense change and the clock moves in    *)
(* steps of half the air delay.                                            *)
(***************************************************************************)
MaxLeaveAdvances == 3
LeaveSteps == {W(0), W(2500)}

LeaveLines == {"mode=2", "mode=0", "mode=3"}

NextLeave ==
  \/ HostSend(LeaveLines)
  \/ DoorChange
  \/ PwmChange
  \/ \E d \in LeaveSteps :
       (d # W(0) => (rx = "" /\ advances < MaxLeaveAdvances)) /\ LoopRead(d)
  \/ LoopEnforce

SpecLeave == Init /\ [][NextLeave]_vars

(***************************************************************************)
(* The controller with a host that switches air, vacuum and the pump in    *)
(* manual and laser mode and goes back to idle, while door and pwm-sense   *)
(* change.                                                                 *)
(***************************************************************************)
FrameLines ==
  {"mode=0", "mode=2", "mode=3", "air=1", "hood=1", "vacuum=1",
   "pump_interval_ms=500"}

NextFrame ==
  \/ HostSend(FrameLines)
  \/ DoorChange
  \/ PwmChange
  \/ \E d \in TickSteps : LoopRead(d)
  \/ LoopEnforce

SpecFrame == Init /\ [][NextFrame]_vars

(***************************************************************************)
(* Properties.                                                             *)
(***************************************************************************)
(* A step that runs the enforcement part of loop(): the end of a tick. *)
TickEnds == pc = "enforce" /\ pc' = "read"

(* A step of the input part of loop() that hands a line to processCmd(). *)
Dispatches == pc = "read" /\ pc' = "enforce" /\ event' = "dispatch"

(* C1: at the end of every tick the laser output is HIGH if and only if    *)
(* the mode is laser and the door, as read by that tick's enforcement,     *)
(* reads closed (LOW), whatever was dispatched in the tick.                *)
C1_LaserAtTickEnd ==
  [][TickEnds =>
       (pin_laser' = HIGH <=> (mode = MODE_LASER /\ pin_door = LOW))]_vars

(* A tick that dispatched laser=0 in laser mode ended with the laser HIGH. *)
C1_Witness ==
  /\ pc = "read"
  /\ event = "dispatch"
  /\ dispatched = "laser=0"
  /\ mode = MODE_LASER
  /\ pin_laser = HIGH

(* C2: in every state, also between dispatch and enforcement, laser output *)
(* HIGH implies laser mode and a closed door: no step of the controller    *)
(* raises the laser output unless the mode is laser and the door reads     *)
(* closed.                                                                 *)
C2_LaserNeverRaisedOtherwise ==
  [][(pin_laser = LOW /\ pin_laser' = HIGH) =>
       (mode' = MODE_LASER /\ pin_door' = LOW)]_vars

(* C3: at the end of every tick, if the mode is not router the spindle     *)
(* output is LOW.                                                          *)
C3_SpindleAtTickEnd ==
  [][TickEnds => (mode # MODE_ROUTER => pin_spindle' = LOW)]_vars

(* A tick that dispatched spindle=1 in manual mode ended with it LOW. *)
C3_Witness ==
  /\ pc = "read"
  /\ event = "dispatch"
  /\ dispatched = "spindle=1"
  /\ mode = MODE_MANUAL
  /\ pin_spindle = LOW

(* C4: delayed shutoff.  While the mode stays laser with the door closed   *)
(* and no air or hood command, after the laser was sampled on, the air and *)
(* the hood shutoff are each taken once, and neither is taken again in any *)
(* later tick without a new laser activation.                              *)
C4_ShutoffOncePerActivation ==
  scene => (air_fires <= 1 /\ hood_fires <= 1)

(* C5: a mode=<n> line is accepted in every mode: for n in 0..3 the mode   *)
(* becomes n, mode_set_time becomes the time of the tick and the reply is  *)
(* done; for any other n the reply is args_error and the mode and          *)
(* mode_set_time stay as they were.                                        *)
C5_ModeCommand ==
  [][\A p \in ModeArgs :
       (Dispatches /\ dispatched' = p[1]) =>
         IF p[2] \in {0, 1, 2, 3}
         THEN mode' = p[2] /\ mode_set_time' = now' /\ reply' = <<"done">>
         ELSE reply' = <<"args_error">>
                /\ UNCHANGED <<mode, mode_set_time>>]_vars

(* mode=0 was dispatched in a tick 5 s after boot and answered done. *)
C5_Witness ==
  /\ event = "dispatch"
  /\ dispatched = "mode=0"
  /\ pc = "enforce"
  /\ mode = MODE_IDLE
  /\ mode_set_time = W(5000)
  /\ now = W(5000)
  /\ reply = <<"done">>

(* C6: while the mode is idle, dispatching a line that is neither a status *)
(* nor a mode= command replies unknown and changes no actuator output, no  *)
(* pump state, no indicator, neither the mode nor a timestamp.             *)
C6_IdleGate ==
  [][(Dispatches /\ mode = MODE_IDLE /\ dispatched' \in GatedLines) =>
       /\ reply' = <<"unknown">>
       /\ UNCHANGED <<pin_spindle, pin_laser, pin_air, pin_vacuum, pin_hood,
                      pin_pump_ena, timer, pump_interval_ms, leds, mode,
                      mode_set_time, stamps>>]_vars

(* pump_interval_ms=0 was dispatched in idle mode while the pump was       *)
(* running, and the pump still runs.                                       *)
C6_Witness ==
  /\ event = "dispatch"
  /\ pc = "enforce"
  /\ dispatched = "pump_interval_ms=0"
  /\ mode = MODE_IDLE
  /\ reply = <<"unknown">>
  /\ pin_pump_ena = LOW
  /\ timer = <<TRUE, 500>>
  /\ pump_interval_ms = 500

(* C7: every completed line that did not overflow the buffer produces      *)
(* exactly one reply, the empty line and pump_interval_ms=<n> with n       *)
(* outside 0..1000 included.                                               *)
C7_OneReplyPerLine == event = "dispatch" => Len(reply) = 1

(* C10: the stored pump_interval_ms always lies in 0..1000. *)
C10_PumpIntervalInRange == pump_interval_ms \in 0..1000

(* C8: buffer overflow is silent and total.  When the terminator arrives   *)
(* of a line of more than CMD_BUFFER_MAX_SIZE characters, nothing is       *)
(* replied and no state but the command buffer changes.                    *)
C8_OverflowSilent ==
  [][(Dispatches /\ Len(host_line) > CMD_BUFFER_MAX_SIZE) =>
       (reply' = <<>> /\ UNCHANGED ctrl)]_vars

(* C9: for every k > CMD_BUFFER_MAX_SIZE, after k characters without a     *)
(* terminator a following command text T and its terminator are dispatched *)
(* exactly as T.                                                           *)
C9_FreshLineAfterOverflow ==
  [][\A k \in (CMD_BUFFER_MAX_SIZE + 1)..MaxJunk : \A t \in Tails :
       (Dispatches /\ host_line = Junk(k) \o t) => dispatched' = t]_vars

(* C11 as stated: dispatching pump_interval_ms=0 leaves, in every mode,    *)
(* the pump driver disabled and the step timer stopped.                    *)
C11_PumpZeroStopsInEveryMode ==
  [][(Dispatches /\ dispatched' = "pump_interval_ms=0") =>
       (pin_pump_ena' = HIGH /\ timer' = <<FALSE, 0>>)]_vars

(* C11: dispatching pump_interval_ms=0 in a mode other than idle leaves    *)
(* the pump driver disabled and the step timer stopped and replies done;   *)
(* in idle mode the line is answered unknown and the pump stays as it was. *)
C11_PumpZeroStops ==
  [][(Dispatches /\ dispatched' = "pump_interval_ms=0") =>
       IF mode # MODE_IDLE
       THEN /\ pin_pump_ena' = HIGH
            /\ timer' = <<FALSE, 0>>
            /\ pump_interval_ms' = 0
            /\ reply' = <<"done">>
       ELSE /\ reply' = <<"unknown">>
            /\ UNCHANGED <<pin_pump_ena, timer, pump_interval_ms>>]_vars

(* pump_interval_ms=0 was dispatched in router mode and the pump is off. *)
C11_Witness ==
  /\ event = "dispatch"
  /\ pc = "enforce"
  /\ dispatched = "pump_interval_ms=0"
  /\ mode = MODE_ROUTER
  /\ reply = <<"done">>
  /\ pin_pump_ena = HIGH
  /\ timer = <<FALSE, 0>>
  /\ pump_interval_ms = 0

(* C12: after pump_interval_ms=<n> is dispatched in a mode other than      *)
(* idle, the pump driver is enabled, with the step timer armed at n, if    *)
(* and only if 0 < n <= 1000; for n = 0 and for n outside 0..1000 the      *)
(* driver is left disabled.                                                *)
C12_PumpEnabledIffInRange ==
  [][\A p \in PumpArgs :
       (Dispatches /\ mode # MODE_IDLE /\ dispatched' = p[1]) =>
         IF 0 < p[2] /\ p[2] <= 1000
         THEN pin_pump_ena' = LOW /\ timer' = <<TRUE, p[2]>>
         ELSE pin_pump_ena' = HIGH]_vars

(* C13: dispatching status is read-only in every mode: the mode, the       *)
(* timestamps, every actuator output, pump_interval_ms, the pump driver    *)
(* and timer and the three indicator triples are after the dispatch what   *)
(* they were before it.                                                    *)
C13_StatusReadOnly ==
  [][(Dispatches /\ dispatched' = "status") =>
       UNCHANGED <<mode, mode_set_time, laser_on_time, spindle_on_time,
                   last_loop_time, pin_spindle, pin_laser, pin_air,
                   pin_vacuum, pin_hood, pump_interval_ms, pin_pump_ena,
                   timer, leds>>]_vars

(* status was dispatched in laser mode with the laser output HIGH, and the *)
(* report was printed.                                                     *)
C13_Witness ==
  /\ event = "dispatch"
  /\ pc = "enforce"
  /\ dispatched = "status"
  /\ mode = MODE_LASER
  /\ pin_laser = HIGH
  /\ Len(reply) = 1
  /\ StartsWith(reply[1], "mode=2\ndoor=1\n")

(* C14 as stated: round trip in any reachable state.  Dispatching          *)
(* ledN=r,g,b changes no other indicator, and the status dispatched after  *)
(* it reports the line ledN=r,g,b.                                         *)
C14_LedRoundTripInEveryMode ==
  [][\A p \in LedArgs :
       /\ (Dispatches /\ dispatched' = p.line) =>
            \A j \in (0..(NUM_LEDS - 1)) \ {p.i} : leds'[j] = leds[j]
       /\ (Dispatches /\ dispatched' = "status"
             /\ host_line = p.line \o "\nstatus") =>
            /\ Len(reply') = 1
            /\ \E k \in 1..(Len(reply'[1]) - Len(p.line) - 1) :
                 SubSeq(reply'[1], k, k + Len(p.line) + 1)
                   = "\n" \o p.line \o "\n"]_vars

(* C14: round trip in any reachable state whose mode is not idle, for N in *)
(* 0..2 and r, g, b in 0..255: dispatching ledN=r,g,b leaves the other two *)
(* indicators as they were, and the status dispatched after it reports the *)
(* line ledN=r,g,b.                                                        *)
C14_LedRoundTrip ==
  [][\A p \in LedArgs :
       /\ (Dispatches /\ mode # MODE_IDLE /\ dispatched' = p.line) =>
            /\ leds'[p.i] = p.rgb
            /\ \A j \in (0..(NUM_LEDS - 1)) \ {p.i} : leds'[j] = leds[j]
       /\ (Dispatches /\ mode # MODE_IDLE /\ dispatched' = "status"
             /\ host_line = p.line \o "\nstatus") =>
            /\ Len(reply') = 1
            /\ \E k \in 1..(Len(reply'[1]) - Len(p.line) - 1) :
                 SubSeq(reply'[1], k, k + Len(p.line) + 1)
                   = "\n" \o p.line \o "\n"]_vars

(* In manual mode led2=255,0,100 and then status were dispatched, and the  *)
(* report ends with that line and the debug line.                          *)
C14_Witness ==
  /\ event = "dispatch"
  /\ pc = "enforce"
  /\ dispatched = "status"
  /\ host_line = "led2=255,0,100\nstatus"
  /\ mode = MODE_MANUAL
  /\ leds[2] = <<255, 0, 100>>
  /\ leds[0] = <<0, 255, 7>>
  /\ Len(reply) = 1
  /\ SubSeq(reply[1], Len(reply[1]) - 21, Len(reply[1]))
       = "\nled2=255,0,100\ndebug="

(* C15: edge triggering.  Between two updates of laser_on_time, also while *)
(* it still holds LONG_MIN, each of the air and the hood shutoff is taken  *)
(* in at most one tick of laser mode; so once a shutoff was taken, an      *)
(* output the host has set HIGH again is not lowered by a later tick in    *)
(* which the laser is not sampled on.                                      *)
C15_ShutoffEdgeTriggered ==
  [][TickEnds =>
       /\ air_fires' <= 1
       /\ hood_fires' <= 1
       /\ (air_fires >= 1 /\ pin_air = HIGH) => pin_air' = HIGH
       /\ (hood_fires >= 1 /\ pin_hood = HIGH) => pin_hood' = HIGH]_vars

(* C16: in every tick in which the mode is laser and the laser is sampled  *)
(* on (laser output HIGH and pwm-sense nonzero when sampled), air and hood *)
(* are HIGH at the end of the tick, whatever was dispatched in it, and     *)
(* neither delayed shutoff is taken in it.                                 *)
C16_ActiveLaserForcesAirAndHood ==
  [][(TickEnds /\ mode = MODE_LASER /\ pin_laser = HIGH /\ pwm # 0) =>
       /\ pin_air' = HIGH
       /\ pin_hood' = HIGH
       /\ ~air_fired'
       /\ ~hood_fired']_vars

(* A tick of laser mode that dispatched air=0 sampled the laser on and     *)
(* ended with air and hood HIGH.                                           *)
C16_Witness ==
  /\ pc = "read"
  /\ event = "dispatch"
  /\ dispatched = "air=0"
  /\ reply = <<"done">>
  /\ mode = MODE_LASER
  /\ laser_is_on
  /\ laser_on_time = now
  /\ pin_air = HIGH
  /\ pin_hood = HIGH

(* C17: tick ordering.  The input part of a tick takes at most one byte,   *)
(* hence at most one line; the line it dispatches is the next complete     *)
(* line of what the host wrote, in the order written; the buffer is empty  *)
(* right after the dispatch; and the enforcement that follows in the same  *)
(* tick writes spindle and laser last: at the end of the tick the spindle  *)
(* is LOW outside router mode and the laser is HIGH exactly in laser mode  *)
(* with the door read closed.                                              *)
C17_TickOrdering ==
  [][/\ (pc = "read" /\ pc' = "enforce") => Len(rx') >= Len(rx) - 1
     /\ Dispatches =>
          LET full == host_line \o "\n"
              last == Len(full) - Len(rx')
              first == last - Len(dispatched')
          IN  /\ cmd_buffer' = ""
              /\ first >= 1
              /\ SubSeq(full, first, last) = dispatched' \o "\n"
              /\ first = 1 \/ CharAt(full, first - 1) = "\n"
              /\ pc' = "enforce"
     /\ TickEnds =>
          /\ mode # MODE_ROUTER => pin_spindle' = LOW
          /\ pin_laser' = HIGH <=> (mode = MODE_LASER /\ pin_door = LOW)
          /\ UNCHANGED <<rx, cmd_buffer, dispatched>>]_vars

(* The second of two lines written together was dispatched in router mode, *)
(* after the first, and its tick ended with the laser LOW.                 *)
C17_Witness ==
  /\ pc = "read"
  /\ event = "dispatch"
  /\ dispatched = "laser=1"
  /\ host_line = "spindle=1\nlaser=1"
  /\ rx = ""
  /\ cmd_buffer = ""
  /\ reply = <<"done">>
  /\ mode = MODE_ROUTER
  /\ pin_laser = LOW
  /\ pin_spindle = HIGH

(* C18: the command buffer never holds more than CMD_BUFFER_MAX_SIZE       *)
(* characters, and a character other than the terminator that arrives      *)
(* when it holds CMD_BUFFER_MAX_SIZE characters empties it and is not      *)
(* stored.                                                                 *)
C18_BufferBounded ==
  [][/\ Len(cmd_buffer') <= CMD_BUFFER_MAX_SIZE
     /\ (/\ pc = "read" /\ pc' = "enforce"
         /\ Len(rx) > 0
         /\ CharAt(rx, 1) # "\n"
         /\ Len(cmd_buffer) = CMD_BUFFER_MAX_SIZE) =>
          (cmd_buffer' = "" /\ event' = "overflow")]_vars

(* The 65th character of a line arrived and the buffer is empty. *)
C18_Witness ==
  /\ pc = "enforce"
  /\ event = "overflow"
  /\ cmd_buffer = ""
  /\ Len(host_line) + 1 - Len(rx) = CMD_BUFFER_MAX_SIZE + 1

(* C19: when the host sends no air= and no hood= line, then after laser    *)
(* activity, whatever mode= lines are dispatched, air is LOW at the end of *)
(* every tick in which now - laser_on_time has reached                     *)
(* LASER_OFF_TO_AIR_OFF_MS, and hood at the end of every tick in which it  *)
(* has reached LASER_OFF_TO_HOOD_OFF_MS: the output is lowered no later    *)
(* than the first such tick.                                               *)
C19_ShutoffInEveryMode ==
  [][(TickEnds /\ laser_on_time' # LONG_MIN) =>
       /\ WGeU(WSub(now, laser_on_time'), W(LASER_OFF_TO_AIR_OFF_MS))
            => pin_air' = LOW
       /\ WGeU(WSub(now, laser_on_time'), W(LASER_OFF_TO_HOOD_OFF_MS))
            => pin_hood' = LOW]_vars

(* C20: the enforcement part of a tick writes neither the vacuum output    *)
(* nor the pump driver, the step timer or the indicators, and writes air   *)
(* and hood only in laser mode; so while the mode is not laser, air, hood, *)
(* vacuum and pump change only in the dispatch of a line in a mode other   *)
(* than idle, and a dispatch that takes the mode to idle leaves them as    *)
(* they were.                                                              *)
C20_EnforcementFrame ==
  [][/\ TickEnds =>
          /\ UNCHANGED <<pin_vacuum, pin_pump_ena, timer, pump_interval_ms,
                         leds>>
          /\ mode # MODE_LASER => UNCHANGED <<pin_air, pin_hood>>
     /\ (/\ mode # MODE_LASER
         /\ <<pin_air, pin_hood, pin_vacuum, pin_pump_ena, timer>>'
              # <<pin_air, pin_hood, pin_vacuum, pin_pump_ena, timer>>) =>
          (Dispatches /\ mode # MODE_IDLE)
     /\ (Dispatches /\ mode # MODE_IDLE /\ mode' = MODE_IDLE) =>
          UNCHANGED <<pin_air, pin_hood, pin_vacuum, pin_pump_ena,
                      timer>>]_vars

(* A tick that took the mode from laser to idle ended with air, hood,      *)
(* vacuum and the pump still on.                                           *)
C20_Witness ==
  /\ pc = "read"
  /\ event = "dispatch"
  /\ dispatched = "mode=0"
  /\ mode = MODE_IDLE
  /\ laser_is_on
  /\ pin_air = HIGH
  /\ pin_hood = HIGH
  /\ pin_vacuum = HIGH
  /\ pin_pump_ena = LOW
  /\ timer = <<TRUE, 500>>

====
